---- MODULE Spec2Model ----
(***************************************************************************)
(* Victus MC Store API (src/main.py): the product catalog reader           *)
(* (get_products, seeding DEFAULT_PRODUCTS into an empty collection) and   *)
(* the order builder (create_order: per-item validation, subtotal,         *)
(* persistence), over a document store with the collections "product" and  *)
(* "order".                                                                *)
(*                                                                         *)
(* Numbers.  A Python float is modelled as a multiple of 1/Scale (a binary *)
(* fraction, exact in binary64, so sums and products of the modelled       *)
(* values carry no representation error) or as NaN.  round(x, 2) yields a  *)
(* whole number of cents; CPython rounds the exact binary value, so an     *)
(* exact tie goes to the even cent.                                        *)
(***************************************************************************)
EXTENDS Integers, Sequences, FiniteSets, TLC

MaxItems == 2        \* longest items list of a request body
MaxOrders == 2       \* create_order requests served in one behaviour
NumWorkers == 2      \* get_products requests in flight at once (ConcSpec)

Scale == 2 ^ 3

None == "None"       \* Python's None, where the field is otherwise a string

COLLECTION_PRODUCTS == "product"
COLLECTION_ORDERS == "order"

DEFAULT_PRODUCTS ==
    << [title |-> "VIP Rank",    price |-> 999,  category |-> "ranks", in_stock |-> TRUE,
        sku |-> "RANK_VIP",       badge |-> "Popular"],
       [title |-> "MVP Rank",    price |-> 1999, category |-> "ranks", in_stock |-> TRUE,
        sku |-> "RANK_MVP",       badge |-> "Best Value"],
       [title |-> "Legend Rank", price |-> 3999, category |-> "ranks", in_stock |-> TRUE,
        sku |-> "RANK_LEGEND",    badge |-> "Premium"],
       [title |-> "Keys Bundle", price |-> 799,  category |-> "keys",  in_stock |-> TRUE,
        sku |-> "KEYS_GALAXY_10", badge |-> None] >>

-----------------------------------------------------------------------------
(* JSON values of an item's "quantity" and "price" keys.                    *)
Absent       == [t |-> "absent",   v |-> 0]     \* the key is not in the dict
Null         == [t |-> "null",     v |-> 0]     \* JSON null, Python None
IntV(n)      == [t |-> "int",      v |-> n]     \* JSON integer n
FloatV(e)    == [t |-> "float",    v |-> e]     \* JSON number e/Scale
StrInt(n)    == [t |-> "intstr",   v |-> n]     \* a string such as "2"
StrFloat(e)  == [t |-> "floatstr", v |-> e]     \* a string such as "0.125"
StrJunk      == [t |-> "junk",     v |-> 0]     \* a string such as "abc"
StrNaN       == [t |-> "nanstr",   v |-> 0]     \* the string "nan"

(* dict.get(key, default): the default only when the key is absent.         *)
Get(item, key, default) == IF item[key] = Absent THEN default ELSE item[key]

(* int(x): ok = FALSE stands for the ValueError / TypeError it raises.      *)
Trunc(e) == IF e >= 0 THEN e \div Scale ELSE -((-e) \div Scale)

PyInt(x) ==
    CASE x.t = "int"    -> [ok |-> TRUE, v |-> x.v]
      [] x.t = "float"  -> [ok |-> TRUE, v |-> Trunc(x.v)]
      [] x.t = "intstr" -> [ok |-> TRUE, v |-> x.v]
      [] OTHER          -> [ok |-> FALSE, v |-> 0]

(* float(x): a value v/Scale, or NaN; ok = FALSE stands for the exception.  *)
PyFloat(x) ==
    CASE x.t = "int"      -> [ok |-> TRUE, nan |-> FALSE, v |-> x.v * Scale]
      [] x.t = "float"    -> [ok |-> TRUE, nan |-> FALSE, v |-> x.v]
      [] x.t = "intstr"   -> [ok |-> TRUE, nan |-> FALSE, v |-> x.v * Scale]
      [] x.t = "floatstr" -> [ok |-> TRUE, nan |-> FALSE, v |-> x.v]
      [] x.t = "nanstr"   -> [ok |-> TRUE, nan |-> TRUE,  v |-> 0]
      [] OTHER            -> [ok |-> FALSE, nan |-> FALSE, v |-> 0]

(* Float arithmetic and comparison; every comparison with NaN is false.     *)
Flt(n)        == [nan |-> FALSE, v |-> n]
NaN           == [nan |-> TRUE, v |-> 0]
FMulInt(q, p) == IF p.nan THEN NaN ELSE Flt(q * p.v)
FAdd(a, b)    == IF a.nan \/ b.nan THEN NaN ELSE Flt(a.v + b.v)
FLess(a, n)   == ~a.nan /\ a.v < n * Scale

(* round(x, 2), in cents: nearest, an exact tie to the even cent.           *)
Round2(x) ==
    IF x.nan THEN NaN
    ELSE LET n == x.v * 100
             q == n \div Scale
             r == n % Scale
         IN  Flt(IF 2 * r < Scale THEN q
                 ELSE IF 2 * r > Scale THEN q + 1
                 ELSE IF q % 2 = 0 THEN q ELSE q + 1)

(* x or y, and str(x), on strings and None.                                 *)
Or(x, y) == IF x = None \/ x = "" THEN y ELSE x
Str(x)   == x

-----------------------------------------------------------------------------
(* Request bodies: the items a client may post.                             *)
Item(q, p, title, pid) == [quantity |-> q, price |-> p, title |-> title, product_id |-> pid]

RawItems ==
    { Item(FloatV(20), FloatV(5),    "VIP Rank", "p1"),  \* 2.5 -> 2 x 0.625
      Item(Absent,     StrFloat(1),  None,       None),  \* 1 x "0.125"
      Item(IntV(0),    IntV(5),      "Zero",     "p2"),
      Item(IntV(-1),   IntV(5),      "Neg",      "p2"),
      Item(IntV(1),    FloatV(-8),   "NegPrice", "p2"),
      Item(IntV(1),    Absent,       "NoPrice",  "p2"),
      Item(IntV(1),    StrJunk,      "BadPrice", "p2"),
      Item(StrJunk,    IntV(5),      "BadQty",   "p2"),
      Item(StrInt(1),  StrNaN,       "NaN",      "p3") }

RECURSIVE SeqsUpTo(_, _)
SeqsUpTo(S, n) ==
    IF n = 0 THEN {<<>>}
    ELSE LET shorter == SeqsUpTo(S, n - 1)
         IN  shorter \cup {Append(s, x) : s \in {t \in shorter : Len(t) = n - 1}, x \in S}

Payloads ==
    { [items |-> its, buyer_email |-> None, buyer_username |-> None, note |-> None] :
        its \in SeqsUpTo(RawItems, MaxItems) }

-----------------------------------------------------------------------------
VARIABLES
    db,        \* TRUE when the store handle is set, FALSE when db is None
    store,     \* collection name -> its documents, in insertion order
    payload,   \* the body every create_order request of the behaviour posts
    op,        \* the handler that served the last request
    response,  \* the last response: status, detail, items, order_id
    io,        \* store calls the last request issued (reads, writes) and
               \* how many of them raised (errors)
    served,    \* create_order requests that returned ok
    workers    \* ConcSpec: each in-flight get_products request's position

vars == <<db, store, payload, op, response, io, served, workers>>

Idle == [pc |-> "idle", count |-> 0, idx |-> 1, errors |-> 0]

IO(reads, writes, errors) == [reads |-> reads, writes |-> writes, errors |-> errors]

NoResponse == [status |-> 0, detail |-> "", items |-> <<>>, order_id |-> ""]

HTTPException(status_code, detail) ==
    [status |-> status_code, detail |-> detail, items |-> <<>>, order_id |-> ""]

Init ==
    /\ db \in BOOLEAN
    /\ store = [c \in {COLLECTION_PRODUCTS, COLLECTION_ORDERS} |-> <<>>]
    /\ payload \in Payloads
    /\ op = "none"
    /\ response = NoResponse
    /\ io = IO(0, 0, 0)
    /\ served = 0
    /\ workers = [w \in 1..NumWorkers |-> Idle]

-----------------------------------------------------------------------------
(* The document store behind database.create_document / get_documents.     *)
(* An ObjectId is modelled by the position at which the document entered   *)
(* its collection (nothing is ever deleted, so it is fresh); str() of it   *)
(* is its decimal text.                                                    *)
ObjectId(st, collection) == Len(st[collection]) + 1

create_document(st, collection, data) ==
    [st EXCEPT ![collection] = Append(@, data @@ ("_id" :> ObjectId(st, collection)))]

get_documents(st, collection) == st[collection]

count_documents(st, collection) == Len(st[collection])

IdStr(oid) == ToString(oid)

-----------------------------------------------------------------------------
(* get_products                                                            *)

(* Mutant: the handle is never checked.                                     *)
DbNeverNone(handle) == FALSE

DbIsNone(handle) == ~handle

(* Mutant: the count check is dropped, every call seeds.                    *)
AlwaysSeed(count) == TRUE

CollectionEmpty(count) == count = 0

(* Mutant: the seed goes to the wrong collection.                           *)
SeedOneIntoOrders(st, i, ok) ==
    IF ok THEN create_document(st, COLLECTION_ORDERS, DEFAULT_PRODUCTS[i]) ELSE st

(* One pass of the seeding loop: create_document, its exception swallowed. *)
SeedOne(st, i, ok) ==
    IF ok THEN create_document(st, COLLECTION_PRODUCTS, DEFAULT_PRODUCTS[i]) ELSE st

RECURSIVE SeedFrom(_, _, _)
SeedFrom(st, i, seedOk) ==
    IF i > Len(DEFAULT_PRODUCTS) THEN st
    ELSE SeedFrom(SeedOne(st, i, seedOk[i]), i + 1, seedOk)

(* Mutant: "id" is added but "_id" is not popped.                           *)
SerializeKeepingRawId(p) ==
    IF "_id" \in DOMAIN p THEN p @@ ("id" :> IdStr(p["_id"])) ELSE p

(* "_id" popped and re-added as the string "id".                           *)
Serialize(p) ==
    IF "_id" \in DOMAIN p
    THEN [k \in (DOMAIN p \ {"_id"}) \cup {"id"} |->
             IF k = "id" THEN IdStr(p["_id"]) ELSE p[k]]
    ELSE p

ProductsResponse(st) ==
    LET products == get_documents(st, COLLECTION_PRODUCTS)
    IN  [status |-> 200, detail |-> "",
         items |-> [i \in 1..Len(products) |-> Serialize(products[i])],
         order_id |-> ""]

(* The whole handler; seedOk[i] tells whether the i-th seed insert succeeds. *)
get_products(handle, st, seedOk) ==
    IF DbIsNone(handle)
    THEN [store |-> st, response |-> HTTPException(500, "Database not configured"),
          io |-> IO(0, 0, 0)]
    ELSE LET count  == count_documents(st, COLLECTION_PRODUCTS)
             seeded == IF CollectionEmpty(count) THEN SeedFrom(st, 1, seedOk) ELSE st
             raised == Cardinality({i \in DOMAIN seedOk : ~seedOk[i]})
         IN  [store |-> seeded, response |-> ProductsResponse(seeded),
              io |-> IF CollectionEmpty(count)
                     THEN IO(2, Len(DEFAULT_PRODUCTS), raised)
                     ELSE IO(2, 0, 0)]

(* The outcomes of the seed inserts: any, when the seeding loop runs; the   *)
(* loop is not entered otherwise, and nothing is drawn.                    *)
SeedOutcomes(handle, st) ==
    IF ~DbIsNone(handle) /\ CollectionEmpty(count_documents(st, COLLECTION_PRODUCTS))
    THEN [1..Len(DEFAULT_PRODUCTS) -> BOOLEAN]
    ELSE {[i \in 1..Len(DEFAULT_PRODUCTS) |-> TRUE]}

GetProducts ==
    \E seedOk \in SeedOutcomes(db, store) :
        LET out == get_products(db, store, seedOk)
        IN  /\ store' = out.store
            /\ response' = out.response
            /\ io' = out.io
            /\ op' = "get_products"
            /\ UNCHANGED <<db, payload, served, workers>>

-----------------------------------------------------------------------------
(* create_order                                                            *)

(* Mutant: the empty list is not told apart.                                *)
NoItemsUnchecked(body) == FALSE

NoItems(body) == body.items = <<>>

Rejected(qty, price) == qty <= 0 \/ FLess(price, 0)

(* Mutant: the subtotal is added before the range check.                   *)
LoopBodySumsFirst(acc, item) ==
    LET qty   == PyInt(Get(item, "quantity", IntV(1)))
        price == PyFloat(Get(item, "price", Null))
        line  == [product_id |-> Str(Or(item.product_id, "")), quantity |-> qty.v,
                  price |-> [nan |-> price.nan, v |-> price.v],
                  title |-> Or(item.title, "Item")]
        sum   == FAdd(acc.subtotal, FMulInt(qty.v, line.price))
    IN  IF ~qty.ok \/ ~price.ok THEN acc
        ELSE IF Rejected(qty.v, price) THEN [items |-> acc.items, subtotal |-> sum]
        ELSE [items |-> Append(acc.items, line), subtotal |-> sum]

(* One iteration of the loop over payload.items; acc is (items, subtotal). *)
LoopBody(acc, item) ==
    LET qty        == PyInt(Get(item, "quantity", IntV(1)))
        price      == PyFloat(Get(item, "price", Null))
        title      == Or(item.title, "Item")
        product_id == Str(Or(item.product_id, ""))
    IN  IF ~qty.ok \/ ~price.ok THEN acc
        ELSE IF Rejected(qty.v, price) THEN acc
        ELSE [items |-> Append(acc.items,
                               [product_id |-> product_id, quantity |-> qty.v,
                                price |-> [nan |-> price.nan, v |-> price.v],
                                title |-> title]),
              subtotal |-> FAdd(acc.subtotal,
                                FMulInt(qty.v, [nan |-> price.nan, v |-> price.v]))]

RECURSIVE Loop(_, _)
Loop(acc, raw) ==
    IF raw = <<>> THEN acc ELSE Loop(LoopBody(acc, Head(raw)), Tail(raw))

(* Mutant: the check after the loop is dropped.                             *)
NoneAcceptedUnchecked(items) == FALSE

NoneAccepted(items) == Len(items) = 0

OrderSchema(items, subtotal, body) ==
    [items |-> items, subtotal |-> subtotal, buyer_email |-> body.buyer_email,
     buyer_username |-> body.buyer_username, note |-> body.note]

(* Mutant: the order replaces the collection instead of joining it.         *)
PersistReplacing(st, order_doc) ==
    [st EXCEPT ![COLLECTION_ORDERS] = <<order_doc @@ ("_id" :> ObjectId(st, COLLECTION_ORDERS))>>]

Persist(st, order_doc) == create_document(st, COLLECTION_ORDERS, order_doc)

(* The whole handler; insertOk tells whether the store accepts the insert. *)
create_order(handle, st, body, insertOk) ==
    IF DbIsNone(handle)
    THEN [store |-> st, response |-> HTTPException(500, "Database not configured"),
          io |-> IO(0, 0, 0)]
    ELSE IF NoItems(body)
    THEN [store |-> st, response |-> HTTPException(400, "No items in order"),
          io |-> IO(0, 0, 0)]
    ELSE LET acc == Loop([items |-> <<>>, subtotal |-> Flt(0)], body.items)
         IN  IF NoneAccepted(acc.items)
             THEN [store |-> st, response |-> HTTPException(400, "Invalid items"),
                   io |-> IO(0, 0, 0)]
             ELSE IF ~insertOk
             THEN [store |-> st, response |-> HTTPException(500, "Internal Server Error"),
                   io |-> IO(0, 1, 1)]
             ELSE [store |-> Persist(st, OrderSchema(acc.items, Round2(acc.subtotal), body)),
                   response |-> [status |-> 200, detail |-> "", items |-> <<>>,
                                 order_id |-> IdStr(ObjectId(st, COLLECTION_ORDERS))],
                   io |-> IO(0, 1, 0)]

CreateOrder ==
    /\ Len(store[COLLECTION_ORDERS]) < MaxOrders
    /\ \E insertOk \in BOOLEAN :
        LET out == create_order(db, store, payload, insertOk)
        IN  /\ store' = out.store
            /\ response' = out.response
            /\ io' = out.io
            /\ served' = IF out.response.status = 200 THEN served + 1 ELSE served
            /\ op' = "create_order"
            /\ UNCHANGED <<db, payload, workers>>

Next == GetProducts \/ CreateOrder

Spec == Init /\ [][Next]_vars

-----------------------------------------------------------------------------
(* get_products served concurrently: count_documents, each create_document *)
(* and get_documents are separate store calls, and other requests' calls   *)
(* may come between them.                                                  *)

GPCount(w) ==
    /\ workers[w].pc = "idle"
    /\ IF DbIsNone(db)
       THEN /\ response' = HTTPException(500, "Database not configured")
            /\ io' = IO(0, 0, 0)
            /\ op' = "get_products"
            /\ UNCHANGED <<db, store, payload, served, workers>>
       ELSE LET count == count_documents(store, COLLECTION_PRODUCTS)
            IN  /\ workers' = [workers EXCEPT ![w] =
                                 [pc |-> IF CollectionEmpty(count) THEN "seed" ELSE "find",
                                  count |-> count, idx |-> 1, errors |-> 0]]
                /\ UNCHANGED <<db, store, payload, op, response, io, served>>

GPSeed(w) ==
    /\ workers[w].pc = "seed"
    /\ \E ok \in BOOLEAN :
        /\ store' = SeedOne(store, workers[w].idx, ok)
        /\ workers' = [workers EXCEPT ![w] =
                         [pc |-> IF @.idx = Len(DEFAULT_PRODUCTS) THEN "find" ELSE "seed",
                          count |-> @.count, idx |-> @.idx + 1,
                          errors |-> IF ok THEN @.errors ELSE @.errors + 1]]
    /\ UNCHANGED <<db, payload, op, response, io, served>>

GPFind(w) ==
    /\ workers[w].pc = "find"
    /\ response' = ProductsResponse(store)
    /\ io' = IF CollectionEmpty(workers[w].count)
             THEN IO(2, Len(DEFAULT_PRODUCTS), workers[w].errors)
             ELSE IO(2, 0, 0)
    /\ op' = "get_products"
    /\ workers' = [workers EXCEPT ![w] = Idle]
    /\ UNCHANGED <<db, store, payload, served>>

ConcInit == Init /\ payload.items = <<>>

ConcNext == \E w \in 1..NumWorkers : GPCount(w) \/ GPSeed(w) \/ GPFind(w)

ConcSpec == ConcInit /\ [][ConcNext]_vars

-----------------------------------------------------------------------------
(* Properties                                                              *)

Products == store[COLLECTION_PRODUCTS]
Orders   == store[COLLECTION_ORDERS]

IsPrefix(s, t) == Len(s) <= Len(t) /\ SubSeq(t, 1, Len(s)) = s

(* The sum of quantity x price over the lines of a persisted order.         *)
RECURSIVE SumLines(_)
SumLines(lines) ==
    IF lines = <<>> THEN Flt(0)
    ELSE FAdd(SumLines(SubSeq(lines, 1, Len(lines) - 1)),
              FMulInt(lines[Len(lines)].quantity, lines[Len(lines)].price))

(* C1: the subtotal of every persisted order is the sum of quantity x price *)
(* over the lines the order holds, rounded to 2 decimal places; the items   *)
(* of the request that were dropped add nothing to it.                      *)
C1_SubtotalIsRoundedSum ==
    \A i \in 1..Len(Orders) : Orders[i].subtotal = Round2(SumLines(Orders[i].items))

(* An order built from a mix of an accepted and a dropped item, whose sum   *)
(* (0.125) lies exactly between two cents.                                  *)
C1_Witness ==
    /\ op = "create_order" /\ response.status = 200
    /\ Len(payload.items) = 2
    /\ Len(Orders[Len(Orders)].items) = 1
    /\ Orders[Len(Orders)].subtotal = Flt(12)

(* The claim's own reading of an item: its quantity parses to an integer    *)
(* > 0 and its price parses to a number >= 0.                               *)
ParsesValid(item) ==
    LET qty   == PyInt(Get(item, "quantity", IntV(1)))
        price == PyFloat(Get(item, "price", Null))
    IN  qty.ok /\ price.ok /\ qty.v > 0 /\ ~price.nan /\ price.v >= 0

Normalized(item) ==
    LET price == PyFloat(Get(item, "price", Null))
    IN  [product_id |-> Str(Or(item.product_id, "")),
         quantity |-> PyInt(Get(item, "quantity", IntV(1))).v,
         price |-> [nan |-> price.nan, v |-> price.v],
         title |-> Or(item.title, "Item")]

ValidLines(raw) ==
    LET kept == SelectSeq(raw, ParsesValid)
    IN  [i \in 1..Len(kept) |-> Normalized(kept[i])]

(* C2: the items of every persisted order are exactly the request's items   *)
(* whose quantity parses to an integer > 0 and whose price parses to a      *)
(* number >= 0, in their input order; and a request with such an item is    *)
(* not answered 400 because of the other items.                             *)
C2_ItemsAreExactlyTheValidOnes ==
    /\ \A i \in 1..Len(Orders) : Orders[i].items = ValidLines(payload.items)
    /\ (op = "create_order" /\ db /\ ValidLines(payload.items) # <<>>)
           => response.status # 400

(* C3: with the store present, an empty items list is answered 400 "No      *)
(* items in order" and the store is left as it was.                         *)
C3_EmptyListIs400 ==
    [][(op' = "create_order" /\ db /\ payload.items = <<>>)
          => /\ response'.status = 400
             /\ response'.detail = "No items in order"
             /\ store' = store /\ io'.writes = 0]_vars

C3_Witness ==
    /\ op = "create_order" /\ db /\ payload.items = <<>>
    /\ response.status = 400

(* Per-item validation drops an item when its quantity or price does not    *)
(* parse, its quantity is <= 0 or its price is < 0.                         *)
Dropped(item) ==
    LET qty   == PyInt(Get(item, "quantity", IntV(1)))
        price == PyFloat(Get(item, "price", Null))
    IN  ~qty.ok \/ ~price.ok \/ qty.v <= 0 \/ (~price.nan /\ price.v < 0)

(* C4: with the store present, a non-empty items list of which every item   *)
(* is dropped is answered 400 "Invalid items" and the store is left as it   *)
(* was.                                                                     *)
C4_AllDroppedIs400 ==
    [][(/\ op' = "create_order" /\ db
        /\ payload.items # <<>>
        /\ \A i \in 1..Len(payload.items) : Dropped(payload.items[i]))
          => /\ response'.status = 400
             /\ response'.detail = "Invalid items"
             /\ store' = store /\ io'.writes = 0]_vars

C4_Witness ==
    /\ op = "create_order" /\ db
    /\ Len(payload.items) = 2
    /\ \A i \in 1..Len(payload.items) : Dropped(payload.items[i])
    /\ response.detail = "Invalid items"

(* C5: without the store handle every get_products and create_order request *)
(* is answered 500 and issues no store read or write, whatever the items    *)
(* list holds.                                                              *)
C5_NoStoreIs500 ==
    [][~db => /\ response'.status = 500
              /\ io'.reads = 0 /\ io'.writes = 0
              /\ store' = store]_vars

C5_Witness ==
    /\ ~db /\ op = "create_order" /\ response.status = 500
    /\ \/ payload.items = <<>>
       \/ \A i \in 1..Len(payload.items) : Dropped(payload.items[i])

Skus(docs) == [i \in 1..Len(docs) |-> docs[i].sku]

DefaultSkus == Skus(DEFAULT_PRODUCTS)

WithoutId(doc) == [k \in DOMAIN doc \ {"_id", "id"} |-> doc[k]]

(* The documents are default products, each at most once, in the order of   *)
(* DEFAULT_PRODUCTS.                                                        *)
DefaultsInOrder(docs) ==
    \E pos \in [1..Len(docs) -> 1..Len(DEFAULT_PRODUCTS)] :
        /\ \A i \in 1..Len(docs) : WithoutId(docs[i]) = DEFAULT_PRODUCTS[pos[i]]
        /\ \A i, j \in 1..Len(docs) : i < j => pos[i] < pos[j]

(* The response holds the collection's documents, "_id" replaced by a       *)
(* string "id".                                                             *)
ReturnsCollection(resp, docs) ==
    /\ Len(resp.items) = Len(docs)
    /\ \A i \in 1..Len(docs) :
        /\ "_id" \notin DOMAIN resp.items[i]
        /\ "id" \in DOMAIN resp.items[i]
        /\ resp.items[i].id = ToString(docs[i]["_id"])
        /\ WithoutId(resp.items[i]) = WithoutId(docs[i])

(* C6 as stated: a get_products call against an empty product collection    *)
(* leaves it holding exactly the 4 default products and returns those 4,    *)
(* each with a string id and no _id.                                        *)
C6_SeedsExactlyFour ==
    [][(op' = "get_products" /\ db /\ Products = <<>>)
          => /\ Skus(Products') = DefaultSkus
             /\ ReturnsCollection(response', Products')]_vars

(* C6 amended: such a call leaves the collection holding exactly the        *)
(* default products whose insert did not raise, each once and in the order  *)
(* of DEFAULT_PRODUCTS (all 4 when no insert raised), and returns exactly   *)
(* the documents then in the collection, each with a string id and no _id.  *)
C6_SeedsTheInsertedDefaults ==
    [][(op' = "get_products" /\ db /\ Products = <<>>)
          => /\ DefaultsInOrder(Products')
             /\ Len(Products') = Len(DEFAULT_PRODUCTS) - io'.errors
             /\ (io'.errors = 0 => Skus(Products') = DefaultSkus)
             /\ response'.status = 200
             /\ ReturnsCollection(response', Products')]_vars

C6_Witness ==
    /\ op = "get_products" /\ db /\ io.writes = 4 /\ io.errors = 0
    /\ Skus(Products) = DefaultSkus
    /\ Len(response.items) = 4

NoDuplicateSku(docs) ==
    \A i, j \in 1..Len(docs) : i # j => docs[i].sku # docs[j].sku

(* C7: get_products calls served one after another never duplicate a        *)
(* product: a call that finds the collection non-empty inserts nothing and  *)
(* leaves the collection as it was.                                         *)
C7_NoReseeding ==
    [][/\ (op' = "get_products" /\ db /\ Products # <<>>)
            => (io'.writes = 0 /\ Products' = Products)
       /\ NoDuplicateSku(Products')]_vars

C7_Witness ==
    /\ op = "get_products" /\ Products # <<>> /\ io.writes = 0
    /\ response.status = 200 /\ Len(response.items) = Len(Products)

(* C8: a successful create_order request adds exactly one document to the   *)
(* order collection and a failed one adds none, so the collection holds as  *)
(* many documents as requests succeeded; no operation changes or removes a  *)
(* document already there.                                                  *)
C8_OneDocumentPerSuccess ==
    [][/\ IsPrefix(Orders, Orders')
       /\ Len(Orders') = served'
       /\ (op' = "create_order" /\ response'.status = 200)
            => Len(Orders') = Len(Orders) + 1
       /\ (op' = "create_order" /\ response'.status # 200)
            => Orders' = Orders]_vars

(* Two successful submissions of the same body: two documents, alike but    *)
(* for their ids.                                                           *)
C8_Witness ==
    /\ Len(Orders) = 2 /\ served = 2
    /\ WithoutId(Orders[1]) = WithoutId(Orders[2])
    /\ Orders[1]["_id"] # Orders[2]["_id"]

(* C9: no two documents of the product collection share a sku, whatever     *)
(* the interleaving of concurrently served get_products requests.           *)
C9_SkuUnique == NoDuplicateSku(Products)

(* C10: a get_products request issues at most 4 writes, all to the product  *)
(* collection and only when the count it read was zero; when that count is  *)
(* not zero it leaves the store unchanged.  get_products never changes the  *)
(* order collection and create_order never changes the product collection.  *)
C10_Frame ==
    [][/\ op' = "get_products"
            => /\ Orders' = Orders
               /\ io'.writes <= 4
               /\ Len(Products') <= Len(Products) + 4
               /\ IsPrefix(Products, Products')
               /\ (Products # <<>> => (store' = store /\ io'.writes = 0))
       /\ op' = "create_order" => Products' = Products]_vars

C10_Witness ==
    /\ op = "get_products" /\ io.writes = 4
    /\ Len(Products) = 4 /\ Len(Orders) = 1

====
